---- MODULE Spec2Model ----
(***************************************************************************)
(* Model of "Part 2 - Neural Networks in PyTorch (Exercises).ipynb".        *)
(*                                                                         *)
(* Three specifications live here:                                         *)
(*   SpecSoftmax  the softmax helper of the notebook, run on small tensors *)
(*                that carry their values (shape + row-major data);        *)
(*   SpecForward  the forward methods of the four network classes, one     *)
(*                statement at a time, on every input shape;               *)
(*   Spec         the notebook's code cells executed top to bottom, on     *)
(*                tensors that carry their real shapes and, as values, the *)
(*                sequence of operations that produced them.               *)
(***************************************************************************)
EXTENDS Integers, Sequences, FiniteSets, TLC

VARIABLES
    spc,            \* softmax cell: "call" before the cell ran, "done" after
    sx,             \* softmax cell: the tensor bound to `out`
    probabilities,  \* softmax cell: the tensor bound to `probabilities`
    printed,        \* softmax cell: what the two print calls wrote
    fmodels,        \* forward calls: one model object per class
    finput,         \* forward calls: the tensor passed to forward
    frames,         \* forward calls: per class, the frame of its forward call
    pc,             \* notebook: the code cell to execute next (1..19, then 20)
    ns,             \* notebook: the kernel's namespace, name -> value
    shown,          \* notebook: what the last executed cell displayed
    err             \* notebook: "" or the call that raised and stopped the run

\* ------------------------------------------------------------------ bounds
\* Largest number of elements (batch * classes) of the value-carrying
\* softmax inputs.
MaxNumel == 4
\* Ordinary logits range over -MaxVal..MaxVal.
MaxVal == 1

\* ------------------------------------------------------ float arithmetic
\* torch.exp on float32: any argument above 88 (e^88.73 is the largest
\* float32) yields +inf.  Finite values are kept as reduced fractions, so
\* rounding is not modelled; overflow to inf and inf/inf = nan are.
ExpMaxArg == 88
\* Fixed-point scale of the exponential table, and e as a multiple of it.
ExpScale == 100
ExpE == 272

RECURSIVE GCD(_, _)
GCD(a, b) == IF b = 0 THEN a ELSE GCD(b, a % b)

Inf == [cls |-> "inf", num |-> 1, den |-> 0]
NaN == [cls |-> "nan", num |-> 0, den |-> 0]
Fin(n, d) ==
    LET g == GCD(n, d)
    IN  IF n = 0 THEN [cls |-> "fin", num |-> 0, den |-> 1]
        ELSE [cls |-> "fin", num |-> n \div g, den |-> d \div g]
Zero == Fin(0, 1)
One == Fin(1, 1)

RECURSIVE ExpFix(_)
ExpFix(v) ==
    IF v = 0 THEN ExpScale
    ELSE IF v > 0 THEN (ExpFix(v - 1) * ExpE) \div ExpScale
    ELSE (ExpFix(v + 1) * ExpScale) \div ExpE

\* torch.exp of one element.
FExp(v) == IF v > ExpMaxArg THEN Inf ELSE Fin(ExpFix(v), ExpScale)

\* IEEE addition of two non-negative values.
FAdd(a, b) ==
    IF a.cls = "nan" \/ b.cls = "nan" THEN NaN
    ELSE IF a.cls = "inf" \/ b.cls = "inf" THEN Inf
    ELSE Fin(a.num * b.den + b.num * a.den, a.den * b.den)

\* IEEE division of two non-negative values.
FDiv(a, b) ==
    IF a.cls = "nan" \/ b.cls = "nan" THEN NaN
    ELSE IF a.cls = "inf" THEN (IF b.cls = "inf" THEN NaN ELSE Inf)
    ELSE IF b.cls = "inf" THEN Zero
    ELSE IF b.num = 0 THEN (IF a.num = 0 THEN NaN ELSE Inf)
    ELSE Fin(a.num * b.den, a.den * b.num)

\* a <= b on floats; every comparison with nan is false.
FLeq(a, b) ==
    IF a.cls = "nan" \/ b.cls = "nan" THEN FALSE
    ELSE IF b.cls = "inf" THEN TRUE
    ELSE IF a.cls = "inf" THEN FALSE
    ELSE a.num * b.den <= b.num * a.den

RECURSIVE FSumSeq(_)
FSumSeq(s) == IF s = <<>> THEN Zero ELSE FAdd(FSumSeq(SubSeq(s, 1, Len(s) - 1)), s[Len(s)])

\* ---------------------------------------------------------------- shapes
RECURSIVE Numel(_)
Numel(shape) == IF shape = <<>> THEN 1 ELSE shape[1] * Numel(Tail(shape))

\* NoShape marks a failed shape computation (the framework raises).
NoShape == <<0 - 1>>
IsShape(s) == \A k \in DOMAIN s : s[k] >= 0

\* Tensor.view(*target): one entry of target may be -1 and is inferred.
ViewShape(shape, target) ==
    LET known == {k \in DOMAIN target : target[k] # 0 - 1}
        rest  == Numel([k \in 1..Len(target) |-> IF k \in known THEN target[k] ELSE 1])
        free  == DOMAIN target \ known
    IN  IF ~IsShape(shape) \/ Cardinality(free) > 1 THEN NoShape
        ELSE IF free = {} THEN (IF rest = Numel(shape) THEN target ELSE NoShape)
        ELSE IF rest = 0 \/ Numel(shape) % rest # 0 THEN NoShape
        ELSE [k \in 1..Len(target) |->
                 IF k \in known THEN target[k] ELSE Numel(shape) \div rest]

\* Tensor.sum(dim=d), d counted from 0: the dimension d is removed.
SumShape(shape, d) ==
    IF ~IsShape(shape) \/ d < 0 \/ d >= Len(shape) THEN NoShape
    ELSE [k \in 1..(Len(shape) - 1) |-> IF k <= d THEN shape[k] ELSE shape[k + 1]]

\* Left-pads a shape with 1s to rank r.
PadShape(shape, r) ==
    [k \in 1..r |-> IF k <= r - Len(shape) THEN 1 ELSE shape[k - (r - Len(shape))]]

Max(a, b) == IF a >= b THEN a ELSE b

\* Broadcasting of an elementwise binary operation (a / b, a + b).
BroadcastShape(sa, sb) ==
    LET r  == Max(Len(sa), Len(sb))
        pa == PadShape(sa, r)
        pb == PadShape(sb, r)
    IN  IF ~IsShape(sa) \/ ~IsShape(sb) THEN NoShape
        ELSE IF \E k \in 1..r : pa[k] # pb[k] /\ pa[k] # 1 /\ pb[k] # 1 THEN NoShape
        ELSE [k \in 1..r |-> Max(pa[k], pb[k])]

\* torch.mm(a, b): both 2-D, inner dimensions equal.
MmShapeRowsOfBoth(sa, sb) ==
    IF ~IsShape(sa) \/ ~IsShape(sb) \/ Len(sa) # 2 \/ Len(sb) # 2 THEN NoShape
    ELSE <<sa[1], sb[1]>>
MmShape(sa, sb) ==
    IF ~IsShape(sa) \/ ~IsShape(sb) \/ Len(sa) # 2 \/ Len(sb) # 2 THEN NoShape
    ELSE IF sa[2] # sb[1] THEN NoShape
    ELSE <<sa[1], sb[2]>>

\* ------------------------------------------------- value-carrying tensors
\* A tensor is its shape and its elements in row-major order.
Tensor(shape, data) == [shape |-> shape, data |-> data]
\* The result of an operation that raised.
Raised == Tensor(NoShape, <<>>)
Ok(t) == IsShape(t.shape)

\* Element (i, j), 1-based, of a 2-D tensor.
At(t, i, j) == t.data[(i - 1) * t.shape[2] + j]

\* torch.exp(t): elementwise.
ExpT(t) ==
    IF ~Ok(t) THEN Raised
    ELSE Tensor(t.shape, [k \in DOMAIN t.data |-> FExp(t.data[k])])

\* t.sum(dim=d) of a 2-D tensor of floats.
SumDimT(t, d) ==
    IF ~Ok(t) \/ Len(t.shape) # 2 \/ ~IsShape(SumShape(t.shape, d)) THEN Raised
    ELSE IF d = 1
    THEN Tensor(SumShape(t.shape, d),
                [i \in 1..t.shape[1] |-> FSumSeq([j \in 1..t.shape[2] |-> At(t, i, j)])])
    ELSE Tensor(SumShape(t.shape, d),
                [j \in 1..t.shape[2] |-> FSumSeq([i \in 1..t.shape[1] |-> At(t, i, j)])])

\* t.view(*target): same storage, new shape.
ViewT(t, target) ==
    IF ~Ok(t) \/ ~IsShape(ViewShape(t.shape, target)) THEN Raised
    ELSE Tensor(ViewShape(t.shape, target), t.data)

\* Element (i, j) of t seen through broadcasting to a 2-D result.
BroadcastAt(t, i, j) ==
    LET p == PadShape(t.shape, 2)
    IN  t.data[((IF p[1] = 1 THEN 1 ELSE i) - 1) * p[2] + (IF p[2] = 1 THEN 1 ELSE j)]

\* a / b with broadcasting, for results of rank 2.
DivT(a, b) ==
    LET s == BroadcastShape(a.shape, b.shape)
    IN  IF ~Ok(a) \/ ~Ok(b) \/ ~IsShape(s) \/ Len(s) # 2 THEN Raised
        ELSE Tensor(s, [k \in 1..(s[1] * s[2]) |->
                 FDiv(BroadcastAt(a, ((k - 1) \div s[2]) + 1, ((k - 1) % s[2]) + 1),
                      BroadcastAt(b, ((k - 1) \div s[2]) + 1, ((k - 1) % s[2]) + 1))])

\* The denominator of the notebook's softmax: torch.exp(x).sum(dim=1).view(-1, 1)
SoftmaxDenominatorNoView(x) == SumDimT(ExpT(x), 1)
SoftmaxDenominator(x) == ViewT(SumDimT(ExpT(x), 1), <<0 - 1, 1>>)

\* def softmax(x): return torch.exp(x) / torch.exp(x).sum(dim=1).view(-1, 1)
softmax(x) == DivT(ExpT(x), SoftmaxDenominator(x))

\* ------------------------------------------------------- notebook values
\* In the notebook run a tensor carries its real shape; its contents are the
\* random draw it came from (src) and the operations applied since (ops).
\* A draw is named by the seed of the cell that drew it, its rank k among
\* the cell's draws and its distribution.
Src(seed, k, dist) == [seed |-> seed, k |-> k, dist |-> dist]
NoSrc == Src(0, 0, "none")

Value(kind, shape, src, ops) == [kind |-> kind, shape |-> shape, src |-> src, ops |-> ops]
TensorV(shape, src, ops) == Value("Tensor", shape, src, ops)
\* Python's None, a name not bound yet, and a raised exception.
NoneV == Value("None", <<>>, NoSrc, <<>>)
Unbound == Value("Unbound", <<>>, NoSrc, <<>>)
ErrorV == Value("Error", NoShape, NoSrc, <<>>)
IsTensor(v) == v.kind = "Tensor"

\* One applied operation: its name, two integer arguments, two tensor ones.
Op(name, p1, p2, w, b) == [op |-> name, p1 |-> p1, p2 |-> p2, w |-> w, b |-> b]

\* Elementwise activation (torch.tanh, sigmoid, relu): shape kept.
Activation(name, t) ==
    IF ~IsTensor(t) THEN ErrorV
    ELSE TensorV(t.shape, t.src, Append(t.ops, Op(name, 0, 0, NoSrc, NoSrc)))

\* Softmax along dim (counted from 0): shape kept, dim must exist.
SoftmaxOp(t, dim) ==
    IF ~IsTensor(t) \/ dim < 0 \/ dim >= Len(t.shape) THEN ErrorV
    ELSE TensorV(t.shape, t.src, Append(t.ops, Op("softmax", dim, 0, NoSrc, NoSrc)))

\* F.softmax called without dim: the framework picks 0 for inputs of rank
\* 0, 1 or 3 and 1 otherwise.
ImplicitSoftmaxDim(rank) == IF rank \in {0, 1, 3} THEN 0 ELSE 1

\* torch.mm(t, w) for a weight tensor w.
MmOp(t, w) ==
    IF ~IsTensor(t) \/ ~IsTensor(w) \/ ~IsShape(MmShape(t.shape, w.shape)) THEN ErrorV
    ELSE TensorV(MmShape(t.shape, w.shape), t.src,
                 Append(t.ops, Op("mm", w.shape[1], w.shape[2], w.src, NoSrc)))

\* t + b with broadcasting, for a bias tensor b.
AddOp(t, b) ==
    IF ~IsTensor(t) \/ ~IsTensor(b) \/ ~IsShape(BroadcastShape(t.shape, b.shape))
    THEN ErrorV
    ELSE TensorV(BroadcastShape(t.shape, b.shape), t.src,
                 Append(t.ops, Op("add", 0, 0, NoSrc, b.src)))

\* t.view(*target) and the in-place t.resize_(*target) of the same size.
ViewOp(t, target) ==
    IF ~IsTensor(t) \/ ~IsShape(ViewShape(t.shape, target)) THEN ErrorV
    ELSE TensorV(ViewShape(t.shape, target), t.src, t.ops)

\* t[i, :] on a tensor of rank >= 2: row i, first dimension dropped.
SelectRow(t, i) ==
    IF ~IsTensor(t) \/ Len(t.shape) < 2 \/ i >= t.shape[1] THEN ErrorV
    ELSE TensorV(Tail(t.shape), t.src, Append(t.ops, Op("select", i, 0, NoSrc, NoSrc)))

\* ------------------------------------------------------------ nn modules
\* One registered sub-module: its attribute name, type and, for Linear, its
\* sizes and parameters; for Softmax its dim.
Module(name, type, inF, outF, w, b, dim) ==
    [name |-> name, type |-> type, inF |-> inF, outF |-> outF, w |-> w, b |-> b,
     dim |-> dim]

\* nn.Linear(inF, outF): draws its weight, then its bias (draws k, k + 1).
Linear(name, inF, outF, seed, k) ==
    Module(name, "Linear", inF, outF, Src(seed, k, "default"), Src(seed, k + 1, "default"), 0)
Sigmoid(name) == Module(name, "Sigmoid", 0, 0, NoSrc, NoSrc, 0)
ReLU(name) == Module(name, "ReLU", 0, 0, NoSrc, NoSrc, 0)
Softmax(name, dim) == Module(name, "Softmax", 0, 0, NoSrc, NoSrc, dim)

\* A model object: its class, the cell that constructed it and its
\* sub-modules in the order __init__ registered them.
ModelObj(cls, id, modules) == [kind |-> "Module", cls |-> cls, id |-> id, modules |-> modules]
NoModel == [kind |-> "Unbound", cls |-> "", id |-> 0, modules |-> <<>>]

\* Network.__init__ of the first definition (sub-modules for the activations).
NewNetworkModule(seed, id) ==
    ModelObj("NetworkModule", id,
             <<Linear("hidden", 784, 256, seed, 1),
               Linear("output", 256, 10, seed, 3),
               Sigmoid("sigmoid"),
               Softmax("softmax", 1)>>)

\* Network.__init__ of the second definition (torch.nn.functional).
NewNetworkFunctional(seed, id) ==
    ModelObj("NetworkFunctional", id,
             <<Linear("hidden", 784, 256, seed, 1),
               Linear("output", 256, 10, seed, 3)>>)

\* Net.__init__
NewNet(seed, id) ==
    ModelObj("Net", id,
             <<Linear("fc1", 784, 128, seed, 1),
               Linear("fc2", 128, 64, seed, 3),
               Linear("fc3", 64, 10, seed, 5)>>)

\* nn.Sequential(nn.Linear(...), nn.ReLU(), ...): modules named "0".."5".
NewSequential(seed, id) ==
    ModelObj("Sequential", id,
             <<Linear("0", 784, 128, seed, 1),
               ReLU("1"),
               Linear("2", 128, 64, seed, 3),
               ReLU("3"),
               Linear("4", 64, 10, seed, 5),
               Softmax("5", 1)>>)

\* nn.Sequential(OrderedDict([...])): modules named by the dictionary keys.
NewSequentialNamedSortedKeys(seed, id) ==
    ModelObj("Sequential", id,
             <<Linear("fc1", 784, 128, seed, 1),
               Linear("fc2", 128, 64, seed, 3),
               Linear("output", 64, 10, seed, 5),
               ReLU("relu1"),
               ReLU("relu2"),
               Softmax("softmax", 1)>>)
NewSequentialNamed(seed, id) ==
    ModelObj("Sequential", id,
             <<Linear("fc1", 784, 128, seed, 1),
               ReLU("relu1"),
               Linear("fc2", 128, 64, seed, 3),
               ReLU("relu2"),
               Linear("output", 64, 10, seed, 5),
               Softmax("softmax", 1)>>)

\* model.<name>: the registered sub-module of that name.
HasAttr(model, name) == \E k \in DOMAIN model.modules : model.modules[k].name = name
Attr(model, name) ==
    model.modules[CHOOSE k \in DOMAIN model.modules : model.modules[k].name = name]

\* module(t): what calling a sub-module on a tensor computes.
ApplyModule(m, t) ==
    IF ~IsTensor(t) THEN ErrorV
    ELSE IF m.type = "Linear"
    THEN IF Len(t.shape) >= 1 /\ t.shape[Len(t.shape)] = m.inF
         THEN TensorV([k \in 1..Len(t.shape) |-> IF k = Len(t.shape) THEN m.outF ELSE t.shape[k]],
                      t.src, Append(t.ops, Op("linear", m.inF, m.outF, m.w, m.b)))
         ELSE ErrorV
    ELSE IF m.type = "Sigmoid" THEN Activation("sigmoid", t)
    ELSE IF m.type = "ReLU" THEN Activation("relu", t)
    ELSE SoftmaxOp(t, m.dim)

\* ------------------------------------------------------- forward methods
\* A call inside a statement of forward: self.<name>(x) or F.<name>(x[, dim]).
ImplicitDim == 0 - 1
Self(name) == [via |-> "self", name |-> name, dim |-> ImplicitDim]
Fn(name, dim) == [via |-> "F", name |-> name, dim |-> dim]
\* x = c_n(...c_1(x)), calls listed innermost first, and `return x`.
Assign(calls) == [kind |-> "assign", calls |-> calls]
Return == [kind |-> "return", calls |-> <<>>]

\* Network.forward, first definition.
NetworkModuleForwardInInitOrder ==
    <<Assign(<<Self("hidden")>>),
      Assign(<<Self("output")>>),
      Assign(<<Self("sigmoid")>>),
      Assign(<<Self("softmax")>>),
      Return>>
NetworkModuleForward ==
    <<Assign(<<Self("hidden")>>),
      Assign(<<Self("sigmoid")>>),
      Assign(<<Self("output")>>),
      Assign(<<Self("softmax")>>),
      Return>>

\* Network.forward, second definition.
NetworkFunctionalForwardDim0 ==
    <<Assign(<<Self("hidden"), Fn("sigmoid", ImplicitDim)>>),
      Assign(<<Self("output"), Fn("softmax", 0)>>),
      Return>>
NetworkFunctionalForward ==
    <<Assign(<<Self("hidden"), Fn("sigmoid", ImplicitDim)>>),
      Assign(<<Self("output"), Fn("softmax", 1)>>),
      Return>>

\* Net.forward: three assignments and no return statement.
NetForward ==
    <<Assign(<<Self("fc1"), Fn("relu", ImplicitDim)>>),
      Assign(<<Self("fc2"), Fn("relu", ImplicitDim)>>),
      Assign(<<Self("fc3"), Fn("softmax", ImplicitDim)>>)>>

\* nn.Sequential.forward: for module in self: input = module(input);
\* return input -- the registered modules, in registration order.
SequentialForward(model) ==
    [k \in 1..Len(model.modules) |-> Assign(<<Self(model.modules[k].name)>>)]
        \o <<Return>>

ForwardBody(model) ==
    IF model.cls = "NetworkModule" THEN NetworkModuleForward
    ELSE IF model.cls = "NetworkFunctional" THEN NetworkFunctionalForward
    ELSE IF model.cls = "Net" THEN NetForward
    ELSE SequentialForward(model)

\* F.sigmoid, F.relu, F.softmax
ApplyF(name, dim, t) ==
    IF name = "softmax"
    THEN SoftmaxOp(t, IF dim = ImplicitDim THEN ImplicitSoftmaxDim(Len(t.shape)) ELSE dim)
    ELSE Activation(name, t)

ExecCall(model, c, t) ==
    IF c.via = "self"
    THEN (IF HasAttr(model, c.name) THEN ApplyModule(Attr(model, c.name), t) ELSE ErrorV)
    ELSE ApplyF(c.name, c.dim, t)

\* The right-hand side of one assignment: the calls in evaluation order,
\* each logged in the trace, stopping at the first that raises.
RECURSIVE ExecCalls(_, _, _, _)
ExecCalls(model, calls, t, trace) ==
    IF calls = <<>> \/ t.kind = "Error" THEN [x |-> t, trace |-> trace]
    ELSE ExecCalls(model, Tail(calls), ExecCall(model, Head(calls), t),
                   Append(trace, Head(calls).name))

\* The frame of a forward call: next statement, local x, outcome.
IdleFrame == [status |-> "idle", pc |-> 0, x |-> Unbound, ret |-> Unbound, trace |-> <<>>]
NewFrame(t) == [status |-> "running", pc |-> 1, x |-> t, ret |-> Unbound, trace |-> <<>>]

\* One statement of forward.  Running off the end of the body returns None.
StepFrame(model, f) ==
    LET body == ForwardBody(model)
    IN  IF f.pc > Len(body) THEN [f EXCEPT !.status = "returned", !.ret = NoneV]
        ELSE IF body[f.pc].kind = "return" THEN [f EXCEPT !.status = "returned", !.ret = f.x]
        ELSE LET r == ExecCalls(model, body[f.pc].calls, f.x, f.trace)
             IN  IF r.x.kind = "Error"
                 THEN [f EXCEPT !.status = "raised", !.ret = ErrorV, !.trace = r.trace]
                 ELSE [f EXCEPT !.pc = f.pc + 1, !.x = r.x, !.trace = r.trace]

RECURSIVE RunFrame(_, _)
RunFrame(model, f) == IF f.status # "running" THEN f ELSE RunFrame(model, StepFrame(model, f))

\* model.forward(t): the returned value (ErrorV when it raised).
Forward(model, t) == RunFrame(model, NewFrame(t)).ret

\* ------------------------------------------- the forward methods, alone
\* Number of seeds a cell's random draws can come from.
MaxSeed == 3
Seeds == 1..MaxSeed
\* The batch size of the loader, and the inputs forward is tried on: one
\* flattened image, a flattened batch, a bare vector and the resized batch.
BatchSize == 64
InputShapes == {<<1, 784>>, <<BatchSize, 784>>, <<784>>, <<BatchSize, 1, 784>>}
Classes == {"NetworkModule", "NetworkFunctional", "Net", "Sequential"}

\* All four classes are constructed from one seed, so layers at the same
\* position hold equal parameters.
ForwardInit ==
    /\ \E seed \in Seeds :
          fmodels = [c \in Classes |->
                       IF c = "NetworkModule" THEN NewNetworkModule(seed, 1)
                       ELSE IF c = "NetworkFunctional" THEN NewNetworkFunctional(seed, 2)
                       ELSE IF c = "Net" THEN NewNet(seed, 3)
                       ELSE NewSequential(seed, 4)]
    /\ \E shape \in InputShapes, seed \in Seeds :
          finput = TensorV(shape, Src(seed, 1, "input"), <<>>)
    /\ frames = [c \in Classes |-> IdleFrame]

\* model.forward(x) is entered.
CallForward(c) ==
    /\ frames[c].status = "idle"
    /\ \A d \in Classes : frames[d].status # "running"
    /\ frames' = [frames EXCEPT ![c] = NewFrame(finput)]
    /\ UNCHANGED <<fmodels, finput>>

\* The running forward executes its next statement.
StepForward(c) ==
    /\ frames[c].status = "running"
    /\ frames' = [frames EXCEPT ![c] = StepFrame(fmodels[c], frames[c])]
    /\ UNCHANGED <<fmodels, finput>>

fvars == <<fmodels, finput, frames>>

ForwardIdle ==
    /\ fmodels = [c \in Classes |-> NoModel]
    /\ finput = Unbound
    /\ frames = [c \in Classes |-> IdleFrame]

\* ------------------------------------------------- the notebook's cells
\* MNIST's training split, which the loader batches.
TrainSetLen == 60000
Min(a, b) == IF a <= b THEN a ELSE b

\* dataiter.next() on a fresh iterator of DataLoader(trainset,
\* batch_size=64, shuffle=True): a random batch of images and its labels.
FirstBatchIsRemainder(loader, seed) ==
    [images |-> TensorV(<<loader.len % loader.batch_size, 1, 28, 28>>,
                        Src(seed, 1, "mnist"), <<>>),
     labels |-> TensorV(<<loader.len % loader.batch_size>>,
                        Src(seed, 2, "mnist"), <<>>)]
FirstBatch(loader, seed) ==
    [images |-> TensorV(<<Min(loader.batch_size, loader.len), 1, 28, 28>>,
                        Src(seed, 1, "mnist"), <<>>),
     labels |-> TensorV(<<Min(loader.batch_size, loader.len)>>,
                        Src(seed, 2, "mnist"), <<>>)]

\* torch.randn(*shape): draw k of the cell.
Randn(shape, seed, k) == TensorV(shape, Src(seed, k, "randn"), <<>>)

\* t.squeeze(): dimensions of size 1 are dropped.
Squeeze(t) ==
    IF ~IsTensor(t) THEN ErrorV
    ELSE TensorV(SelectSeq(t.shape, LAMBDA d : d # 1), t.src, t.ops)

\* t.resize_(*target), in place: the shape becomes target whatever it was.
ResizeOp(t, target) == IF ~IsTensor(t) THEN ErrorV ELSE TensorV(target, t.src, t.ops)

\* The notebook's softmax(x) on shapes:
\* torch.exp(x) / torch.exp(x).sum(dim=1).view(-1, 1)
SoftmaxFn(t) ==
    LET den == ViewShape(SumShape(t.shape, 1), <<0 - 1, 1>>)
    IN  IF ~IsTensor(t) \/ ~IsShape(den) \/ ~IsShape(BroadcastShape(t.shape, den)) THEN ErrorV
        ELSE TensorV(BroadcastShape(t.shape, den), t.src,
                     Append(t.ops, Op("exp_over_rowsum", 1, 0, NoSrc, NoSrc)))

\* t.sum(dim=d) on shapes.
SumOp(t, d) ==
    IF ~IsTensor(t) \/ ~IsShape(SumShape(t.shape, d)) THEN ErrorV
    ELSE TensorV(SumShape(t.shape, d), t.src, Append(t.ops, Op("sum", d, 0, NoSrc, NoSrc)))

\* model[i] of an nn.Sequential: the i-th registered module, from 0.
Item(model, i) == model.modules[i + 1]

\* layer.bias.data.fill_(0) on the layer named `layer`.
FillBiasEveryLayer(model, layer) ==
    [model EXCEPT !.modules = [k \in DOMAIN model.modules |->
        IF model.modules[k].type = "Linear"
        THEN [model.modules[k] EXCEPT !.b = Src(0, 0, "zeros")]
        ELSE model.modules[k]]]
FillBias(model, layer) ==
    [model EXCEPT !.modules = [k \in DOMAIN model.modules |->
        IF model.modules[k].name = layer
        THEN [model.modules[k] EXCEPT !.b = Src(0, 0, "zeros")]
        ELSE model.modules[k]]]

\* layer.weight.data.normal_(std=0.01) on the layer named `layer`.
NormalWeight(model, layer, seed) ==
    [model EXCEPT !.modules = [k \in DOMAIN model.modules |->
        IF model.modules[k].name = layer
        THEN [model.modules[k] EXCEPT !.w = Src(seed, 1, "normal_std_0.01")]
        ELSE model.modules[k]]]

\* Network(): the class the name Network is bound to when the cell runs.
NewNetwork(binding, seed, id) ==
    IF binding = "NetworkModule" THEN NewNetworkModule(seed, id)
    ELSE NewNetworkFunctional(seed, id)

\* No DataLoader yet: trainloader is not bound.
NoLoader == [batch_size |-> 0, len |-> 0]

\* The notebook's global names: those whose value the cells below compute
\* with, and in names the bound ones of which only the binding matters
\* (imported modules, def softmax, dataiter, img_idx, the three sizes).
EmptyNamespace ==
    [names |-> {},
     trainloader |-> NoLoader,
     images |-> Unbound, labels |-> Unbound,
     w1 |-> Unbound, b1 |-> Unbound, w2 |-> Unbound, b2 |-> Unbound,
     x |-> Unbound, out |-> Unbound, probabilities |-> Unbound,
     Network |-> "", model |-> NoModel, ps |-> Unbound, img |-> Unbound]

NotebookInit ==
    /\ pc = 1
    /\ ns = EmptyNamespace
    /\ shown = <<>>
    /\ err = ""

\* A cell that ran to its end / that stopped at a raising call.
Ran(n, out) == pc' = pc + 1 /\ ns' = n /\ shown' = out /\ err' = ""
StoppedAndRolledBack(n, what) == pc' = pc /\ ns' = ns /\ shown' = <<>> /\ err' = what
Stopped(n, what) == pc' = pc /\ ns' = n /\ shown' = <<>> /\ err' = what
AtCell(k) == pc = k /\ err = ""

\* An import, def or plain assignment binds its names; a statement that
\* evaluates a name that is not bound raises NameError.
Bind(n, bound) == [n EXCEPT !.names = @ \cup bound]
IsBound(n, name) == name \in n.names

\* import numpy, torch, helper, matplotlib
CellImports == AtCell(1) /\ Ran(Bind(ns, {"np", "torch", "helper", "plt"}), <<>>)

\* trainset = datasets.MNIST(...); trainloader = DataLoader(trainset, 64, shuffle)
CellLoader ==
    /\ AtCell(2)
    /\ LET n1 == Bind(ns, {"datasets", "transforms", "transform", "trainset"})
       IN  IF ~IsBound(ns, "torch") THEN Stopped(n1, "torch.utils.data.DataLoader")
           ELSE Ran([n1 EXCEPT !.trainloader = [batch_size |-> BatchSize,
                                                len |-> TrainSetLen]], <<>>)

\* images, labels = dataiter.next(); the type and the two shapes are printed
CellFirstBatch ==
    /\ AtCell(3)
    /\ \E seed \in Seeds :
          LET batch == FirstBatch(ns.trainloader, seed)
              n1    == Bind([ns EXCEPT !.images = batch.images, !.labels = batch.labels],
                            {"dataiter"})
          IN  IF ns.trainloader = NoLoader THEN Stopped(ns, "iter(trainloader)")
              ELSE Ran(n1, <<batch.images.shape, batch.labels.shape>>)

\* plt.imshow(images[1].numpy().squeeze())
CellShowImage ==
    /\ AtCell(4)
    /\ LET img == Squeeze(SelectRow(ns.images, 1))
       IN  IF ~IsBound(ns, "plt") THEN Stopped(ns, "plt.imshow")
           ELSE IF IsTensor(img) THEN Ran(ns, <<img>>)
           ELSE Stopped(ns, "images[1]")

\* The manual network: w1, b1, w2, b2 random; x = images.view(64, -1);
\* x = torch.tanh(torch.mm(x, w1) + b1); out = torch.mm(x, w2) + b2; out.shape
CellManualNetwork ==
    /\ AtCell(5)
    /\ \E seed \in Seeds :
          LET n1 == [ns EXCEPT !.w1 = Randn(<<28 * 28, 256>>, seed, 1),
                               !.b1 = Randn(<<256>>, seed, 2),
                               !.w2 = Randn(<<256, 10>>, seed, 3),
                               !.b2 = Randn(<<10>>, seed, 4)]
              x1 == ViewOp(n1.images, <<BatchSize, 0 - 1>>)
              x2 == Activation("tanh", AddOp(MmOp(x1, n1.w1), n1.b1))
              o  == AddOp(MmOp(x2, n1.w2), n1.b2)
          IN  IF ~IsBound(ns, "torch") THEN Stopped(ns, "torch.randn")
              ELSE IF ~IsTensor(x1) THEN Stopped(n1, "images.view")
              ELSE IF ~IsTensor(x2) THEN Stopped([n1 EXCEPT !.x = x1], "torch.mm(x, w1) + b1")
              ELSE IF ~IsTensor(o) THEN Stopped([n1 EXCEPT !.x = x2], "torch.mm(x, w2) + b2")
              ELSE Ran([n1 EXCEPT !.x = x2, !.out = o], <<o.shape>>)

\* def softmax(x); probabilities = softmax(out); its shape and row sums printed
CellSoftmax ==
    /\ AtCell(6)
    /\ LET n0 == Bind(ns, {"softmax"})
           p  == IF IsBound(ns, "torch") THEN SoftmaxFn(ns.out) ELSE ErrorV
           n1 == [n0 EXCEPT !.probabilities = p]
       IN  IF ~IsTensor(p) THEN Stopped(n0, "softmax(out)")
           ELSE IF ~IsTensor(SumOp(p, 1)) THEN Stopped(n1, "probabilities.sum")
           ELSE Ran(n1, <<p.shape, SumOp(p, 1)>>)

\* from torch import nn
CellImportNn == AtCell(7) /\ Ran(Bind(ns, {"nn"}), <<>>)

\* class Network(nn.Module), with nn.Sigmoid and nn.Softmax sub-modules
CellDefNetworkModule ==
    /\ AtCell(8)
    /\ IF ~IsBound(ns, "nn") THEN Stopped(ns, "nn.Module")
       ELSE Ran([ns EXCEPT !.Network = "NetworkModule"], <<>>)

\* model = Network(); model
CellNewNetwork ==
    /\ AtCell(9)
    /\ \E seed \in Seeds :
          LET m == NewNetwork(ns.Network, seed, pc)
          IN  IF ns.Network = "" THEN Stopped(ns, "Network()")
              ELSE Ran([ns EXCEPT !.model = m], <<m>>)

\* class Network(nn.Module), with F.sigmoid and F.softmax
CellDefNetworkFunctional ==
    /\ AtCell(10)
    /\ LET n1 == Bind(ns, {"F"})
       IN  IF ~IsBound(ns, "nn") THEN Stopped(n1, "nn.Module")
           ELSE Ran([n1 EXCEPT !.Network = "NetworkFunctional"], <<>>)

\* class Net(nn.Module); model = Net(); model
CellNewNet ==
    /\ AtCell(11)
    /\ \E seed \in Seeds :
          LET m == NewNet(seed, pc)
          IN  Ran(Bind([ns EXCEPT !.model = m], {"F", "nn", "Net"}), <<m>>)

\* print(model.fc1.weight); print(model.fc1.bias)
CellPrintParameters ==
    /\ AtCell(12)
    /\ IF HasAttr(ns.model, "fc1")
       THEN Ran(ns, <<Attr(ns.model, "fc1").w, Attr(ns.model, "fc1").b>>)
       ELSE Stopped(ns, "model.fc1")

\* model.fc1.bias.data.fill_(0)
CellFillBias ==
    /\ AtCell(13)
    /\ IF HasAttr(ns.model, "fc1")
       THEN LET m == FillBias(ns.model, "fc1")
            IN  Ran([ns EXCEPT !.model = m], <<Attr(m, "fc1").b>>)
       ELSE Stopped(ns, "model.fc1")

\* model.fc1.weight.data.normal_(std=0.01)
CellNormalWeight ==
    /\ AtCell(14)
    /\ IF HasAttr(ns.model, "fc1")
       THEN \E seed \in Seeds :
               LET m == NormalWeight(ns.model, "fc1", seed)
               IN  Ran([ns EXCEPT !.model = m], <<Attr(m, "fc1").w>>)
       ELSE Stopped(ns, "model.fc1")

\* helper.view_classify(img, ps): helper is not part of the notebook; with
\* a tensor of probabilities it draws, with anything else it may raise.
ViewClassifyOutcomes(img, ps) ==
    IF ~IsTensor(img) THEN {"raises"}
    ELSE IF IsTensor(ps) THEN {"draws"}
    ELSE {"draws", "raises"}
\* The call in a cell: the name helper is evaluated first.
ViewClassifyCall(n, img, ps) ==
    IF IsBound(n, "helper") THEN ViewClassifyOutcomes(img, ps) ELSE {"raises"}

\* Forward pass: a new batch; images.resize_(64, 1, 784);
\* ps = model.forward(images[0,:]); img = images[0];
\* helper.view_classify(img.view(1, 28, 28), ps)
CellForwardPass ==
    /\ AtCell(15)
    /\ \E seed \in Seeds :
          LET batch == FirstBatch(ns.trainloader, seed)
              imgs  == ResizeOp(batch.images, <<BatchSize, 1, 784>>)
              n1    == Bind([ns EXCEPT !.images = imgs, !.labels = batch.labels],
                            {"dataiter", "img_idx"})
              p     == IF n1.model = NoModel THEN ErrorV
                       ELSE Forward(n1.model, SelectRow(imgs, 0))
              n2    == [n1 EXCEPT !.ps = p]
              img   == SelectRow(imgs, 0)
              n3    == [n2 EXCEPT !.img = img]
              arg   == ViewOp(img, <<1, 28, 28>>)
          IN  IF ns.trainloader = NoLoader THEN Stopped(ns, "iter(trainloader)")
              ELSE IF p.kind = "Error" THEN Stopped(n1, "model.forward")
              ELSE IF ~IsTensor(img) THEN Stopped(n2, "images[img_idx]")
              ELSE \E outcome \in ViewClassifyCall(n3, arg, p) :
                      IF outcome = "draws" THEN Ran(n3, <<arg, p>>)
                      ELSE Stopped(n3, "helper.view_classify")

\* model = nn.Sequential(...); print(model); a new batch;
\* images.resize_(images.shape[0], 1, 784); ps = model.forward(images[0,:]);
\* helper.view_classify(images[0].view(1, 28, 28), ps)
CellSequential ==
    /\ AtCell(16)
    /\ \E seed \in Seeds :
          LET m     == NewSequential(seed, pc)
              sizes == Bind(ns, {"input_size", "hidden_sizes", "output_size"})
              n0    == [sizes EXCEPT !.model = m]
              batch == FirstBatch(ns.trainloader, seed)
              imgs  == ResizeOp(batch.images, <<batch.images.shape[1], 1, 784>>)
              n1    == [n0 EXCEPT !.images = imgs, !.labels = batch.labels]
              p     == Forward(m, SelectRow(imgs, 0))
              n2    == [n1 EXCEPT !.ps = p]
              arg   == ViewOp(SelectRow(imgs, 0), <<1, 28, 28>>)
          IN  IF ~IsBound(ns, "nn") THEN Stopped(sizes, "nn.Sequential")
              ELSE IF ns.trainloader = NoLoader THEN Stopped(n0, "iter(trainloader)")
              ELSE IF p.kind = "Error" THEN Stopped(n1, "model.forward")
              ELSE \E outcome \in ViewClassifyCall(n2, arg, p) :
                      IF outcome = "draws" THEN Ran(n2, <<m, arg, p>>)
                      ELSE Stopped(n2, "helper.view_classify")

\* print(model[0]); model[0].weight
CellFirstLayer ==
    /\ AtCell(17)
    /\ IF ns.model.cls = "Sequential"
       THEN Ran(ns, <<Item(ns.model, 0), Item(ns.model, 0).w>>)
       ELSE Stopped(ns, "model[0]")

\* model = nn.Sequential(OrderedDict([...])); model
CellSequentialNamed ==
    /\ AtCell(18)
    /\ \E seed \in Seeds :
          LET m  == NewSequentialNamed(seed, pc)
              n0 == Bind(ns, {"OrderedDict"})
          IN  IF ~IsBound(ns, "nn") THEN Stopped(n0, "nn.Sequential")
              ELSE IF ~IsBound(ns, "input_size") THEN Stopped(n0, "input_size")
              ELSE Ran([n0 EXCEPT !.model = m], <<m>>)

\* print(model[0]); print(model.fc1)
CellLayerByName ==
    /\ AtCell(19)
    /\ IF ns.model.cls = "Sequential" /\ HasAttr(ns.model, "fc1")
       THEN Ran(ns, <<Item(ns.model, 0), Attr(ns.model, "fc1")>>)
       ELSE Stopped(ns, "model.fc1")

\* The cells are run by hand: the user may leave a cell without running
\* it, or go on to the next one after a cell has failed.
NextCell ==
    /\ pc \in 1..19
    /\ pc' = pc + 1
    /\ ns' = ns
    /\ shown' = <<>>
    /\ err' = ""

nvars == <<pc, ns, shown, err>>

NotebookIdle ==
    /\ pc = 0
    /\ ns = EmptyNamespace
    /\ shown = <<>>
    /\ err = ""

\* ------------------------------------------------ the softmax cell, alone
\* Logits: ordinary values, and one whose exponential overflows float32.
Logits == ((0 - MaxVal)..MaxVal) \cup {ExpMaxArg + 1}

\* Every (batch, classes) tensor of logits within the bounds.
LogitTensors ==
    UNION {{Tensor(<<b, c>>, d) : d \in [1..(b * c) -> Logits]} :
           <<b, c>> \in {s \in (1..MaxNumel) \X (1..MaxNumel) : s[1] * s[2] <= MaxNumel}}

NotRun == Tensor(<<>>, <<>>)

SoftmaxInit ==
    /\ spc = "call"
    /\ sx \in LogitTensors
    /\ probabilities = NotRun
    /\ printed = <<>>

\* probabilities = softmax(out); print(probabilities.shape);
\* print(probabilities.sum(dim=1))
SoftmaxCell ==
    /\ spc = "call"
    /\ spc' = "done"
    /\ probabilities' = softmax(sx)
    /\ printed' = IF Ok(probabilities')
                   THEN <<Tensor(<<Len(probabilities'.shape)>>, probabilities'.shape),
                          SumDimT(probabilities', 1)>>
                   ELSE <<>>
    /\ UNCHANGED sx

svars == <<spc, sx, probabilities, printed>>

SoftmaxIdle ==
    /\ spc = "idle"
    /\ sx = NotRun
    /\ probabilities = NotRun
    /\ printed = <<>>

\* ------------------------------------------------------- specifications
vars == <<svars, fvars, nvars>>

\* The softmax cell on every small tensor of logits.
InitSoftmax == SoftmaxInit /\ ForwardIdle /\ NotebookIdle
RunSoftmaxCell == SoftmaxCell /\ UNCHANGED <<fvars, nvars>>
NextSoftmax == RunSoftmaxCell
SpecSoftmax == InitSoftmax /\ [][NextSoftmax]_vars

\* The forward methods of the four classes on every input shape.
InitForward == ForwardInit /\ SoftmaxIdle /\ NotebookIdle
EnterForward == \E c \in Classes : CallForward(c) /\ UNCHANGED <<svars, nvars>>
ExecForward == \E c \in Classes : StepForward(c) /\ UNCHANGED <<svars, nvars>>
NextForward == EnterForward \/ ExecForward
SpecForward == InitForward /\ [][NextForward]_vars

\* The notebook's code cells, top to bottom.
Init == NotebookInit /\ SoftmaxIdle /\ ForwardIdle
Others == UNCHANGED <<svars, fvars>>
Next ==
    \/ CellImports /\ Others
    \/ CellLoader /\ Others
    \/ CellFirstBatch /\ Others
    \/ CellShowImage /\ Others
    \/ CellManualNetwork /\ Others
    \/ CellSoftmax /\ Others
    \/ CellImportNn /\ Others
    \/ CellDefNetworkModule /\ Others
    \/ CellNewNetwork /\ Others
    \/ CellDefNetworkFunctional /\ Others
    \/ CellNewNet /\ Others
    \/ CellPrintParameters /\ Others
    \/ CellFillBias /\ Others
    \/ CellNormalWeight /\ Others
    \/ CellForwardPass /\ Others
    \/ CellSequential /\ Others
    \/ CellFirstLayer /\ Others
    \/ CellSequentialNamed /\ Others
    \/ CellLayerByName /\ Others
Spec == Init /\ [][Next]_vars

\* The cells in notebook order, each one run or passed over.
InitByHand == NotebookInit /\ SoftmaxIdle /\ ForwardIdle
NextByHand ==
    \/ CellImports /\ Others
    \/ CellLoader /\ Others
    \/ CellFirstBatch /\ Others
    \/ CellShowImage /\ Others
    \/ CellManualNetwork /\ Others
    \/ CellSoftmax /\ Others
    \/ CellImportNn /\ Others
    \/ CellDefNetworkModule /\ Others
    \/ CellNewNetwork /\ Others
    \/ CellDefNetworkFunctional /\ Others
    \/ CellNewNet /\ Others
    \/ CellPrintParameters /\ Others
    \/ CellFillBias /\ Others
    \/ CellNormalWeight /\ Others
    \/ CellForwardPass /\ Others
    \/ CellSequential /\ Others
    \/ CellFirstLayer /\ Others
    \/ CellSequentialNamed /\ Others
    \/ CellLayerByName /\ Others
    \/ NextCell /\ Others
SpecByHand == InitByHand /\ [][NextByHand]_vars

\* ----------------------------------------------------- claims on softmax
RowOf(t, i) == [j \in 1..t.shape[2] |-> At(t, i, j)]

\* C1 (as stated): for every input of shape (batch, classes) softmax returns
\* a probability distribution per example: every entry lies between 0 and 1
\* and the entries of every row sum to 1.
C1_SoftmaxIsDistribution ==
    spc = "done" =>
        /\ Ok(probabilities)
        /\ \A i \in 1..sx.shape[1] :
              /\ \A j \in 1..sx.shape[2] :
                    /\ FLeq(Zero, At(probabilities, i, j))
                    /\ FLeq(At(probabilities, i, j), One)
              /\ FSumSeq(RowOf(probabilities, i)) = One

\* C7: softmax(x) has the shape of x and entry (i, j) is exp(x[i][j]) divided
\* by the sum over k of exp(x[i][k]) of the same row i.
C7_SoftmaxRowwise ==
    spc = "done" =>
        /\ probabilities.shape = sx.shape
        /\ \A i \in 1..sx.shape[1] : \A j \in 1..sx.shape[2] :
              At(probabilities, i, j) =
                  FDiv(FExp(At(sx, i, j)),
                       FSumSeq([k \in 1..sx.shape[2] |-> FExp(At(sx, i, k))]))

\* A batch of at least two rows whose sums of exponentials differ, each row
\* with at least two classes, has been normalised.
C7_Witness ==
    /\ spc = "done"
    /\ sx.shape[1] >= 2 /\ sx.shape[2] >= 2
    /\ SumDimT(ExpT(sx), 1).data[1] # SumDimT(ExpT(sx), 1).data[2]
    /\ \A k \in DOMAIN probabilities.data : probabilities.data[k].cls = "fin"

\* --------------------------------------------- claims on the forward methods
Finished(c) == frames[c].status \in {"returned", "raised"}
Act(name) == Op(name, 0, 0, NoSrc, NoSrc)
LinearOp(m) == Op("linear", m.inF, m.outF, m.w, m.b)
\* The input is a stack of rows of 784 values.
RowsOf784 == Len(finput.shape) = 2 /\ finput.shape[2] = 784

\* fc1 -> ReLU -> fc2 -> ReLU -> fc3 -> softmax over the classes, applied to
\* the input by a network of layer sizes 784, 128, 64, 10.
DigitProbabilities(model, l1, l2, l3) ==
    TensorV(<<finput.shape[1], 10>>, finput.src,
            <<Op("linear", 784, 128, Attr(model, l1).w, Attr(model, l1).b), Act("relu"),
              Op("linear", 128, 64, Attr(model, l2).w, Attr(model, l2).b), Act("relu"),
              Op("linear", 64, 10, Attr(model, l3).w, Attr(model, l3).b),
              Op("softmax", 1, 0, NoSrc, NoSrc)>>)

\* C2 (as stated): Net.forward(x) returns, for every input row of 784 values,
\* the softmax distribution over the 10 classes computed by
\* fc1 -> ReLU -> fc2 -> ReLU -> fc3 -> softmax.
C2_NetForwardReturnsProbabilities ==
    (Finished("Net") /\ RowsOf784) =>
        frames["Net"].ret = DigitProbabilities(fmodels["Net"], "fc1", "fc2", "fc3")

\* C4 (as stated): with equal parameters the nn.Sequential model and Net
\* apply the same operations and return the same output for every input;
\* stated on the inputs both are built for, stacks of rows of 784 values.
C4_SequentialSameAsNet ==
    (Finished("Net") /\ Finished("Sequential") /\ RowsOf784) =>
        /\ frames["Net"].status = frames["Sequential"].status
        /\ frames["Net"].ret = frames["Sequential"].ret

ForwardOrder == <<"hidden", "sigmoid", "output", "softmax">>
InitOrder(model) == [k \in DOMAIN model.modules |-> model.modules[k].name]

\* C8: Network.forward applies hidden, sigmoid, output, softmax(dim=1) in
\* that order and returns the result of the last one, although __init__
\* created the operations in another order.
C8_NetworkForwardOrder ==
    LET f == frames["NetworkModule"]
        m == fmodels["NetworkModule"]
    IN  /\ f.trace = SubSeq(ForwardOrder, 1, Len(f.trace))
        /\ f.status = "running" => Len(f.trace) = f.pc - 1
        /\ f.status = "returned" =>
              /\ f.trace = ForwardOrder
              /\ InitOrder(m) # ForwardOrder
              /\ f.ret = TensorV(f.ret.shape, finput.src,
                                 <<LinearOp(Attr(m, "hidden")), Act("sigmoid"),
                                   LinearOp(Attr(m, "output")),
                                   Op("softmax", 1, 0, NoSrc, NoSrc)>>)

\* Network.forward ran to its return statement on a batch of rows.
C8_Witness ==
    /\ frames["NetworkModule"].status = "returned"
    /\ IsTensor(frames["NetworkModule"].ret)
    /\ finput.shape = <<BatchSize, 784>>

\* C9: with equal hidden and output parameters the two definitions of
\* Network return the same output for every input (or both raise).
C9_NetworkDefinitionsAgree ==
    (Finished("NetworkModule") /\ Finished("NetworkFunctional")) =>
        /\ frames["NetworkModule"].status = frames["NetworkFunctional"].status
        /\ frames["NetworkModule"].ret = frames["NetworkFunctional"].ret

\* Both definitions returned a tensor for the same input and parameters.
C9_Witness ==
    /\ frames["NetworkModule"].status = "returned"
    /\ frames["NetworkFunctional"].status = "returned"
    /\ IsTensor(frames["NetworkFunctional"].ret)
    /\ Attr(fmodels["NetworkModule"], "hidden").w = Attr(fmodels["NetworkFunctional"], "hidden").w

\* ------------------------------------------------- claims on the notebook
LastOp(t) == t.ops[Len(t.ops)]
\* The forward pass cell has bound ps (the model is still the Net of cell 11).
ForwardPassCellRan == ns.model.id = 11 /\ ns.ps.kind # "Unbound"

\* C3 (as stated): the forward pass cell pushes the selected image through the
\* current model and obtains in ps a tensor of 10 class probabilities for it,
\* which is passed to the display call.
C3_ForwardPassYieldsProbabilities ==
    ForwardPassCellRan =>
        /\ IsTensor(ns.ps)
        /\ Numel(ns.ps.shape) = 10
        /\ ns.ps.src = ns.images.src
        /\ Len(ns.ps.ops) > 0 /\ LastOp(ns.ps).op = "softmax"

\* The manual network cell has drawn its weights.
ManualCellRan == IsTensor(ns.w1)

\* C5 (as stated): the manual network applies a sigmoid to its 256 hidden
\* units and no activation to its 10 outputs.
C5_ManualHiddenIsSigmoid ==
    ManualCellRan =>
        /\ IsTensor(ns.x) /\ IsTensor(ns.out)
        /\ ns.x.ops = <<Op("mm", 784, 256, ns.w1.src, NoSrc),
                        Op("add", 0, 0, NoSrc, ns.b1.src),
                        Act("sigmoid")>>
        /\ ns.out.ops = ns.x.ops \o <<Op("mm", 256, 10, ns.w2.src, NoSrc),
                                      Op("add", 0, 0, NoSrc, ns.b2.src)>>

\* C6: for the batch of shape (64, 1, 28, 28) the manual forward pass yields
\* an output of shape (64, 10): a row per image, a column per digit class.
C6_ManualOutputShape ==
    ManualCellRan =>
        /\ IsTensor(ns.out)
        /\ ns.out.shape = <<64, 10>>
        /\ ns.x.shape = <<64, 256>>
        /\ pc = 6 => (ns.images.shape = <<64, 1, 28, 28>>
                      /\ ns.out.shape[1] = ns.images.shape[1])

\* The manual cell ran to its end on the first batch and displayed out.shape.
C6_Witness ==
    /\ pc = 6 /\ err = ""
    /\ ns.images.shape = <<64, 1, 28, 28>>
    /\ IsTensor(ns.out)
    /\ shown = <<ns.out.shape>>

\* C10: a forward pass never changes a weight or bias of its model, and once
\* a model is constructed its parameters change only by fill_(0) on fc1's bias
\* and normal_(std=0.01) on fc1's weight.
C10_OnlyInitCallsChangeParameters ==
    [][LET m == ns.model
           m2 == ns'.model
           SameBut(name) == \A k \in DOMAIN m.modules :
                                m.modules[k].name # name => m2.modules[k] = m.modules[k]
       IN  /\ pc = 15 => m2 = m
           /\ m2.id = m.id =>
                 \/ m2 = m
                 \/ /\ pc = 13
                    /\ DOMAIN m2.modules = DOMAIN m.modules /\ SameBut("fc1")
                    /\ Attr(m2, "fc1") = [Attr(m, "fc1") EXCEPT !.b = Src(0, 0, "zeros")]
                 \/ /\ pc = 14
                    /\ DOMAIN m2.modules = DOMAIN m.modules /\ SameBut("fc1")
                    /\ Attr(m2, "fc1").w.dist = "normal_std_0.01"
                    /\ Attr(m2, "fc1") = [Attr(m, "fc1") EXCEPT !.w = Attr(m2, "fc1").w]
           /\ m2.id # m.id =>
                 \A k \in DOMAIN m2.modules :
                     m2.modules[k].type = "Linear" =>
                         m2.modules[k].w.dist = "default" /\ m2.modules[k].b.dist = "default"
      ]_vars

\* The forward pass cell ran on the Net whose fc1 was re-initialised.
C10_Witness ==
    /\ pc = 16 /\ err = ""
    /\ ForwardPassCellRan
    /\ Attr(ns.model, "fc1").b.dist = "zeros"
    /\ Attr(ns.model, "fc1").w.dist = "normal_std_0.01"
    /\ Attr(ns.model, "fc2").b.dist = "default"

\* The keys of the OrderedDict, in insertion order.
OrderedDictKeys == <<"fc1", "relu1", "fc2", "relu2", "output", "softmax">>
\* The model is the nn.Sequential built from the OrderedDict (cell 18).
NamedSequentialBuilt == ns.model.id = 18

\* C11: in the nn.Sequential built from the OrderedDict, model[0] and
\* model.fc1 are the same Linear(784, 128) layer, and position i denotes the
\* i-th entry of the OrderedDict in insertion order.
C11_IndexAndNameAgree ==
    NamedSequentialBuilt =>
        /\ Item(ns.model, 0) = Attr(ns.model, "fc1")
        /\ Item(ns.model, 0).type = "Linear"
        /\ Item(ns.model, 0).inF = 784 /\ Item(ns.model, 0).outF = 128
        /\ Len(ns.model.modules) = Len(OrderedDictKeys)
        /\ \A i \in 0..(Len(OrderedDictKeys) - 1) :
              /\ Item(ns.model, i).name = OrderedDictKeys[i + 1]
              /\ Item(ns.model, i) = Attr(ns.model, OrderedDictKeys[i + 1])
        /\ (pc = 20 /\ err = "") => shown = <<Attr(ns.model, "fc1"), Item(ns.model, 0)>>

\* The last cell printed model[0] and model.fc1 of the named model.
C11_Witness ==
    /\ pc = 20 /\ err = ""
    /\ NamedSequentialBuilt
    /\ Len(shown) = 2 /\ shown[1] = shown[2]
    /\ shown[1].name = "fc1"

\* The first batch has been taken and not yet resized in place.
FirstBatchUntouched == pc \in 4..15 /\ err = "" /\ IsTensor(ns.images)

\* C12: the first batch of a fresh iterator has images of shape
\* (64, 1, 28, 28) and labels of shape (64), so the 64 written in
\* images.view(64, -1) and images.resize_(64, 1, 784) is the number of images
\* in the batch wherever it is used.
C12_BatchIsSixtyFour ==
    /\ FirstBatchUntouched =>
          /\ ns.images.shape = <<64, 1, 28, 28>>
          /\ ns.labels.shape = <<64>>
    /\ IsTensor(ns.x) => ns.x.shape[1] = ns.labels.shape[1]
    /\ IsTensor(ns.labels) =>
          /\ ns.labels.shape = <<64>>
          /\ ns.images.shape[1] = ns.labels.shape[1]
          /\ Numel(ns.images.shape) = ns.labels.shape[1] * 28 * 28

\* The forward pass cell resized a batch whose labels number 64.
C12_Witness ==
    /\ pc = 16
    /\ ns.images.shape = <<64, 1, 784>>
    /\ ns.labels.shape = <<64>>
    /\ IsTensor(ns.x)

\* Where a cell stops when one of its statements raises: the names of the
\* namespace that the statements before the raising one have assigned, read
\* off the cell's statements in their order.
AssignedBefore(cell, what) ==
    IF cell = 5 /\ what = "images.view" THEN {"w1", "b1", "w2", "b2"}
    ELSE IF cell = 5 /\ what \in {"torch.mm(x, w1) + b1", "torch.mm(x, w2) + b2"}
    THEN {"w1", "b1", "w2", "b2", "x"}
    ELSE IF cell = 6 /\ what = "probabilities.sum" THEN {"probabilities"}
    ELSE IF cell = 15 /\ what = "model.forward" THEN {"images", "labels"}
    ELSE IF cell = 15 /\ what = "images[img_idx]" THEN {"images", "labels", "ps"}
    ELSE IF cell = 15 /\ what = "helper.view_classify"
    THEN {"images", "labels", "ps", "img"}
    ELSE IF cell = 16 /\ what = "iter(trainloader)" THEN {"model"}
    ELSE IF cell = 16 /\ what = "model.forward" THEN {"model", "images", "labels"}
    ELSE IF cell = 16 /\ what = "helper.view_classify"
    THEN {"model", "images", "labels", "ps"}
    ELSE {}

\* The same for the imports, defs and plain assignments before it.
NamesBefore(cell, what) ==
    IF cell = 2 THEN {"datasets", "transforms", "transform", "trainset"}
    ELSE IF cell = 6 THEN {"softmax"}
    ELSE IF cell = 10 THEN {"F"}
    ELSE IF cell = 15 /\ what # "iter(trainloader)" THEN {"dataiter", "img_idx"}
    ELSE IF cell = 16 THEN {"input_size", "hidden_sizes", "output_size"}
    ELSE IF cell = 18 THEN {"OrderedDict"}
    ELSE {}

GlobalVariables == DOMAIN EmptyNamespace \ {"names"}
HasValue(v, val) ==
    IF v = "model" THEN val # NoModel ELSE val.kind \notin {"Unbound", "Error"}
StatementFails == err = "" /\ err' # ""

\* C13: no failure is caught. When a statement of a cell raises, the cell
\* is left at once (it is not completed and it shows no result), every name
\* assigned by the statements before the raising one is bound, nothing after
\* it has been assigned, and every other variable has the value it had before
\* the cell; going on to the next cell afterwards changes no variable.
C13_FailureLeavesEarlierBindings ==
    [][/\ StatementFails =>
            /\ pc' = pc
            /\ shown' = <<>>
            /\ \A v \in GlobalVariables :
                  IF v \in AssignedBefore(pc, err')
                  THEN HasValue(v, ns'[v])
                  ELSE ns'[v] = ns[v]
            /\ ns'.names = ns.names \cup NamesBefore(pc, err')
       /\ err # "" => pc' = pc + 1 /\ ns' = ns]_vars

\* The manual-network cell run without a batch: the four parameters are
\* drawn, images.view raises, x and out are never assigned.
C13_Witness ==
    /\ pc = 5
    /\ err = "images.view"
    /\ IsTensor(ns.w1) /\ IsTensor(ns.b1) /\ IsTensor(ns.w2) /\ IsTensor(ns.b2)
    /\ ns.x = Unbound
    /\ ns.out = Unbound

====
